---- MODULE Spec2Model ----
(***************************************************************************)
(* Model of server.js: an Express proxy with an in-memory sliding-window   *)
(* rate limiter (checkRateLimit), a health check, and three proxied GET    *)
(* endpoints that make one upstream call each.                             *)
(***************************************************************************)
EXTENDS Integers, Sequences, FiniteSets, TLC

\* ---------------------------------------------------------------- constants

RATE_LIMIT == 100

RATE_WINDOW == 60000

DEFAULT_LIMIT == 50

MAX_LIMIT == 100

\* ------------------------------------------------------------------- bounds

\* Requests received over a run (health checks included).
MaxReqs == 3

\* An initial state holds either no traffic or, for each client,
\* RATE_LIMIT - Headroom admitted requests at clock 0.
Headroom == 1

\* Longest raw text of the limit query parameter that is enumerated.
MaxLen == 3

\* Largest magnitude of the integers a client formats into the limit parameter.
MaxN == 12

\* ------------------------------------------------------------------- inputs

Clients == {"10.0.0.1", "10.0.0.2"}

ProxiedRoutes == {"details", "inventory", "creator"}

\* Readings of Date.now(): between them the ages 0, 1, RATE_WINDOW - 1 and
\* RATE_WINDOW occur.
TimePoints == {0, 1, RATE_WINDOW}

\* Upstream payloads (response.data), opaque to the proxy.
Bodies == {[id |-> 123], [id |-> 456]}

\* What axios.get settles with: a 2xx response, a non-2xx response (the error
\* carries error.response.status), or a failure with no response at all.
Outcomes ==
    {[kind |-> "ok", data |-> b] : b \in Bodies}
    \cup {[kind |-> "http", status |-> s,
           message |-> "Request failed with status code 404"] : s \in {404}}
    \cup {[kind |-> "net", message |-> "getaddrinfo ENOTFOUND"]}

\* ------------------------------------------------- the limit query parameter

\* req.query.limit: absent (undefined) or a string, held as its characters.
Absent == [present |-> FALSE, text |-> <<>>]

Text(s) == [present |-> TRUE, text |-> s]

Chars == {"0", "1", "5", "a", "x", "-", " "}

DigitChars == <<"0", "1", "2", "3", "4", "5", "6", "7", "8", "9">>

\* The value of a character as a digit of radix 16, or -1.
HexValue(c) ==
    CASE c = "0" -> 0 [] c = "1" -> 1 [] c = "2" -> 2 [] c = "3" -> 3
      [] c = "4" -> 4 [] c = "5" -> 5 [] c = "6" -> 6 [] c = "7" -> 7
      [] c = "8" -> 8 [] c = "9" -> 9
      [] c \in {"a", "A"} -> 10 [] c \in {"b", "B"} -> 11
      [] c \in {"c", "C"} -> 12 [] c \in {"d", "D"} -> 13
      [] c \in {"e", "E"} -> 14 [] c \in {"f", "F"} -> 15
      [] OTHER -> -1

IsDigit(c, radix) == HexValue(c) >= 0 /\ HexValue(c) < radix

RECURSIVE DropSpaces(_)
DropSpaces(s) ==
    IF s # <<>> /\ Head(s) = " " THEN DropSpaces(Tail(s)) ELSE s

\* The value of the longest prefix of s made of digits of the radix, given the
\* value acc of the digits read so far and whether any was read.
RECURSIVE ReadDigits(_, _, _, _)
ReadDigits(s, radix, acc, any) ==
    IF s # <<>> /\ IsDigit(Head(s), radix)
    THEN ReadDigits(Tail(s), radix, acc * radix + HexValue(Head(s)), TRUE)
    ELSE [nan |-> ~any, val |-> acc]

NaN == [nan |-> TRUE, val |-> 0]

\* parseInt(q) with no radix: leading white space is skipped, a sign is read, a
\* 0x prefix selects radix 16, and the longest run of digits is the value; no
\* digit at all gives NaN. undefined is read as the text "undefined": NaN.
parseInt(q) ==
    IF ~q.present THEN NaN
    ELSE LET s0 == DropSpaces(q.text)
             neg == s0 # <<>> /\ Head(s0) = "-"
             s1 == IF s0 # <<>> /\ Head(s0) \in {"-", "+"} THEN Tail(s0) ELSE s0
             hex == Len(s1) >= 2 /\ s1[1] = "0" /\ s1[2] \in {"x", "X"}
             s2 == IF hex THEN Tail(Tail(s1)) ELSE s1
             r == ReadDigits(s2, IF hex THEN 16 ELSE 10, 0, FALSE)
         IN  IF r.nan THEN NaN
             ELSE [nan |-> FALSE, val |-> IF neg THEN 0 - r.val ELSE r.val]

Min(a, b) == IF a <= b THEN a ELSE b

\* Fault variant: the default is applied but the cap is not.
EffectiveLimitNoCap(q) ==
    LET p == parseInt(q)
    IN  IF p.nan \/ p.val = 0 THEN DEFAULT_LIMIT ELSE p.val

\* Math.min(parseInt(req.query.limit) || 50, 100): NaN and 0 are falsy.
EffectiveLimit(q) ==
    LET p == parseInt(q)
    IN  Min(IF p.nan \/ p.val = 0 THEN DEFAULT_LIMIT ELSE p.val, MAX_LIMIT)

\* The decimal text a client writes for an integer n (limit=${n}).
RECURSIVE NatText(_)
NatText(n) ==
    IF n < 10 THEN <<DigitChars[n + 1]>>
    ELSE Append(NatText(n \div 10), DigitChars[(n % 10) + 1])

IntText(n) == IF n < 0 THEN <<"-">> \o NatText(0 - n) ELSE NatText(n)

\* -------------------------------------------------------------------- state

VARIABLES
    now,            \* the clock read by Date.now()
    requestCounts,  \* the Map: client address -> timestamps of admitted requests
    inflight,       \* admitted requests suspended at await axios.get(...)
    lastResponse,   \* the response sent most recently
    arrived,        \* requests received so far; a request is named by its number
    responded,      \* responses sent so far
    lastCheck,      \* the most recent call of checkRateLimit
    history,        \* per client, every timestamp ever admitted
    limitCase       \* the limit parameter under evaluation (SpecLimit)

vars ==
    <<now, requestCounts, inflight, lastResponse, arrived, responded,
      lastCheck, history, limitCase>>

NoResponse ==
    [id |-> 0, route |-> "none", status |-> 0,
     body |-> [none |-> TRUE], calls |-> 0, upstream |-> [kind |-> "none"]]

NoCheck == [id |-> 0, ip |-> "none", now |-> 0, before |-> <<>>, result |-> TRUE]

NoLimitCase ==
    [pc |-> "idle", route |-> "none", query |-> Absent, requested |-> 0,
     asInteger |-> FALSE, forwarded |-> 0]

\* k admitted requests, all at clock 0.
Burst(k) == [i \in 1..k |-> 0]

\* The empty Map of a fresh process, or the Map that a burst of
\* RATE_LIMIT - Headroom admitted and answered requests of each client at
\* clock 0 leaves.
Init ==
    /\ now = 0
    /\ requestCounts \in {[c \in Clients |-> <<>>],
                         [c \in Clients |-> Burst(RATE_LIMIT - Headroom)]}
    /\ history = requestCounts
    /\ inflight = {}
    /\ lastResponse = NoResponse
    /\ arrived = 0
    /\ responded = 0
    /\ lastCheck = NoCheck
    /\ limitCase = NoLimitCase

\* ------------------------------------------------------------- rate limiter

\* userRequests.filter(time => now - time < RATE_WINDOW)
recentRequests(userRequests, t) ==
    SelectSeq(userRequests, LAMBDA time : t - time < RATE_WINDOW)

\* Fault variant: the window test admits an entry exactly RATE_WINDOW old.
checkRateLimitClosedWindow(counts, ip, t) ==
    LET recent == SelectSeq(counts[ip], LAMBDA time : t - time <= RATE_WINDOW)
    IN  IF Len(recent) >= RATE_LIMIT
        THEN [ok |-> FALSE, counts |-> counts]
        ELSE [ok |-> TRUE, counts |-> [counts EXCEPT ![ip] = Append(recent, t)]]

\* Fault variant: the quota test is > instead of >=.
checkRateLimitOffByOne(counts, ip, t) ==
    LET recent == recentRequests(counts[ip], t)
    IN  IF Len(recent) > RATE_LIMIT
        THEN [ok |-> FALSE, counts |-> counts]
        ELSE [ok |-> TRUE, counts |-> [counts EXCEPT ![ip] = Append(recent, t)]]

\* Fault variant: now is pushed on the stored array, which is never pruned.
checkRateLimitNoPrune(counts, ip, t) ==
    LET recent == recentRequests(counts[ip], t)
    IN  IF Len(recent) >= RATE_LIMIT
        THEN [ok |-> FALSE, counts |-> counts]
        ELSE [ok |-> TRUE,
              counts |-> [counts EXCEPT ![ip] = Append(counts[ip], t)]]

\* Fault variant: the quota test reads the length of the stored array, not of
\* the filtered one.
checkRateLimitCountsStale(counts, ip, t) ==
    LET recent == recentRequests(counts[ip], t)
    IN  IF Len(counts[ip]) >= RATE_LIMIT
        THEN [ok |-> FALSE, counts |-> counts]
        ELSE [ok |-> TRUE, counts |-> [counts EXCEPT ![ip] = Append(recent, t)]]

\* Fault variant: the Map is keyed by one constant for every client (req.ip
\* undefined), so all clients share one array.
checkRateLimitSharedKey(counts, ip, t) ==
    LET recent == recentRequests(counts[ip], t)
    IN  IF Len(recent) >= RATE_LIMIT
        THEN [ok |-> FALSE, counts |-> counts]
        ELSE [ok |-> TRUE, counts |-> [c \in DOMAIN counts |-> Append(recent, t)]]

\* checkRateLimit(ip) at clock t on the Map counts: the decision and the Map
\* it leaves. A client with no entry reads as [] (requestCounts.get(ip) || []);
\* a rejection returns before requestCounts.set.
checkRateLimit(counts, ip, t) ==
    LET recent == recentRequests(counts[ip], t)
    IN  IF Len(recent) >= RATE_LIMIT
        THEN [ok |-> FALSE, counts |-> counts]
        ELSE [ok |-> TRUE, counts |-> [counts EXCEPT ![ip] = Append(recent, t)]]

\* ----------------------------------------------------------------- handlers

\* The body res.json sends for GET /.
Descriptor ==
    [status |-> "online", message |-> "Roblox Gamepass Proxy API",
     endpoints |-> [gamepassDetails |-> "/api/gamepasses/:id/details",
                    userInventory |-> "/api/users/:userId/inventory/gamepasses",
                    creatorGamepasses |-> "/api/users/:userId/gamepasses"]]

RateLimitBody == [error |-> "Rate limit exceeded"]

\* The fixed error string of each proxied handler's catch block.
Category(route) ==
    CASE route = "details" -> "Failed to fetch gamepass details"
      [] route = "inventory" -> "Failed to fetch user inventory"
      [] route = "creator" -> "Failed to fetch creator gamepasses"

\* The limit query parameter the clients of Spec send: limit=500.
LimitQueries == {Text(<<"5", "0", "0">>)}

\* The params of the outbound call; the details call has none.
OutboundParams(route, q) ==
    CASE route = "details" -> [none |-> TRUE]
      [] route = "inventory" ->
            [assetType |-> "GamePass", limit |-> EffectiveLimit(q)]
      [] route = "creator" ->
            [assetType |-> 34, limit |-> EffectiveLimit(q), isArchived |-> FALSE]

\* Fault variant: the health check is put behind the rate limiter.
HealthCheckLimited(ip) ==
    LET r == checkRateLimit(requestCounts, ip, now)
    IN  /\ arrived < MaxReqs
        /\ arrived' = arrived + 1
        /\ responded' = responded + 1
        /\ requestCounts' = r.counts
        /\ history' = IF r.ok THEN [history EXCEPT ![ip] = Append(@, now)]
                      ELSE history
        /\ lastResponse' =
              [id |-> arrived + 1, route |-> "health",
               status |-> IF r.ok THEN 200 ELSE 429,
               body |-> IF r.ok THEN Descriptor ELSE RateLimitBody,
               calls |-> 0, upstream |-> [kind |-> "none"]]
        /\ UNCHANGED <<now, inflight, lastCheck, limitCase>>

\* GET /: answers with the descriptor; nothing else is read or written.
HealthCheck(ip) ==
    /\ arrived < MaxReqs
    /\ arrived' = arrived + 1
    /\ responded' = responded + 1
    /\ lastResponse' =
          [id |-> arrived + 1, route |-> "health", status |-> 200,
           body |-> Descriptor, calls |-> 0, upstream |-> [kind |-> "none"]]
    /\ UNCHANGED <<now, requestCounts, inflight, lastCheck, history, limitCase>>

\* Fault variant: the return before res.status(429) is missing, so a rejected
\* request goes on to the upstream call.
ProxyRequestNoReturn(route, ip, q) ==
    LET r == checkRateLimit(requestCounts, ip, now)
        id == arrived + 1
    IN  /\ arrived < MaxReqs
        /\ arrived' = id
        /\ requestCounts' = r.counts
        /\ lastCheck' = [id |-> id, ip |-> ip, now |-> now,
                         before |-> requestCounts[ip], result |-> r.ok]
        /\ history' = IF r.ok THEN [history EXCEPT ![ip] = Append(@, now)]
                      ELSE history
        /\ inflight' = inflight \cup
              {[id |-> id, route |-> route,
                outbound |-> <<OutboundParams(route, q)>>]}
        /\ IF r.ok
           THEN UNCHANGED <<lastResponse, responded>>
           ELSE /\ lastResponse' =
                     [id |-> id, route |-> route, status |-> 429,
                      body |-> RateLimitBody, calls |-> 1,
                      upstream |-> [kind |-> "none"]]
                /\ responded' = responded + 1
        /\ UNCHANGED <<now, limitCase>>

\* A proxied handler up to its await: checkRateLimit(req.ip); on rejection the
\* 429 is sent and the handler returns; on admission the one axios.get is
\* issued and the handler suspends.
ProxyRequest(route, ip, q) ==
    LET r == checkRateLimit(requestCounts, ip, now)
        id == arrived + 1
    IN  /\ arrived < MaxReqs
        /\ arrived' = id
        /\ requestCounts' = r.counts
        /\ lastCheck' = [id |-> id, ip |-> ip, now |-> now,
                         before |-> requestCounts[ip], result |-> r.ok]
        /\ history' = IF r.ok THEN [history EXCEPT ![ip] = Append(@, now)]
                      ELSE history
        /\ IF r.ok
           THEN /\ inflight' = inflight \cup
                     {[id |-> id, route |-> route,
                       outbound |-> <<OutboundParams(route, q)>>]}
                /\ UNCHANGED <<lastResponse, responded>>
           ELSE /\ lastResponse' =
                     [id |-> id, route |-> route, status |-> 429,
                      body |-> RateLimitBody, calls |-> 0,
                      upstream |-> [kind |-> "none"]]
                /\ responded' = responded + 1
                /\ UNCHANGED inflight
        /\ UNCHANGED <<now, limitCase>>

\* Fault variant: the upstream's status is not passed on; every failure is a 500.
UpstreamResponseAlways500(req, o) ==
    IF o.kind = "ok"
    THEN [status |-> 200, body |-> o.data]
    ELSE [status |-> 500,
          body |-> [error |-> Category(req.route), message |-> o.message]]

\* What the handler sends once its axios.get has settled with o: res.json of the
\* data, or from the catch block error.response?.status || 500 with the error
\* body.
UpstreamResponse(req, o) ==
    IF o.kind = "ok"
    THEN [status |-> 200, body |-> o.data]
    ELSE [status |-> IF o.kind = "http" /\ o.status # 0 THEN o.status ELSE 500,
          body |-> [error |-> Category(req.route), message |-> o.message]]

\* The handler resumes when its axios.get settles, and answers.
Settle(req, o) ==
    LET a == UpstreamResponse(req, o)
    IN  /\ inflight' = inflight \ {req}
        /\ responded' = responded + 1
        /\ lastResponse' =
              [id |-> req.id, route |-> req.route,
               status |-> a.status, body |-> a.body, calls |-> Len(req.outbound),
               upstream |-> o]
        /\ UNCHANGED <<now, requestCounts, arrived, lastCheck, history, limitCase>>

\* Date.now() moves on.
Tick(t) ==
    /\ t > now
    /\ now' = t
    /\ UNCHANGED <<requestCounts, inflight, lastResponse, arrived, responded,
                   lastCheck, history, limitCase>>

Next ==
    \/ \E t \in TimePoints : Tick(t)
    \/ \E ip \in Clients : HealthCheck(ip)
    \/ \E route \in ProxiedRoutes, ip \in Clients, q \in LimitQueries :
          ProxyRequest(route, ip, q)
    \/ \E req \in inflight, o \in Outcomes : Settle(req, o)

Spec == Init /\ [][Next]_vars

\* ------------------------------------------- the limit parameter on its own

\* Every text of at most MaxLen characters.
Texts == UNION {[1..n -> Chars] : n \in 0..MaxLen}

\* The integers a client formats into limit=<n>.
IntInputs == (0 - MaxN)..MaxN \cup {50, 99, 100, 101, 500}

\* A request of the inventory or creator endpoint with its limit parameter:
\* absent, any text, or the decimal text of an integer.
LimitCases ==
    {[pc |-> "received", route |-> "none", query |-> q, requested |-> 0,
      asInteger |-> FALSE, forwarded |-> 0] : q \in {Absent} \cup {Text(s) : s \in Texts}}
    \cup {[pc |-> "received", route |-> "none", query |-> Text(IntText(n)),
           requested |-> n, asInteger |-> TRUE, forwarded |-> 0] : n \in IntInputs}

InitLimit ==
    /\ now = 0
    /\ requestCounts = [c \in Clients |-> <<>>]
    /\ history = requestCounts
    /\ inflight = {}
    /\ lastResponse = NoResponse
    /\ arrived = 0
    /\ responded = 0
    /\ lastCheck = NoCheck
    /\ limitCase \in LimitCases

\* The handler of route builds the params of its outbound call.
ForwardLimit(route) ==
    /\ limitCase.pc = "received"
    /\ limitCase' = [limitCase EXCEPT !.pc = "sent", !.route = route,
                       !.forwarded = OutboundParams(route, limitCase.query).limit]
    /\ UNCHANGED <<now, requestCounts, inflight, lastResponse, arrived,
                   responded, lastCheck, history>>

NextLimit == \E route \in {"inventory", "creator"} : ForwardLimit(route)

SpecLimit == InitLimit /\ [][NextLimit]_vars

\* ------------------------------------------------------------------- claims

\* ts lies in the trailing window of length RATE_WINDOW ending at t: less than
\* RATE_WINDOW ms before t.
InTrailingWindow(ts, t) == ts <= t /\ ts > t - RATE_WINDOW

CountIn(seq, t) ==
    Cardinality({i \in DOMAIN seq : InTrailingWindow(seq[i], t)})

\* The client's admitted timestamps as they stood when the most recent
\* admission check began.
HistoryBefore ==
    LET h == history[lastCheck.ip]
    IN  IF lastCheck.result THEN SubSeq(h, 1, Len(h) - 1) ELSE h

\* The first of the RATE_LIMIT most recently admitted calls before the check.
FirstOfQuota == HistoryBefore[Len(HistoryBefore) - RATE_LIMIT + 1]

Checked == lastCheck.id > 0

Rejection(resp) == resp.route \in ProxiedRoutes /\ resp.upstream.kind = "none"

\* C1: once RATE_LIMIT calls of a client have been admitted within one window,
\* a further call of that client inside that window is rejected and answered
\* with 429 and the error 'Rate limit exceeded'; a call made once RATE_WINDOW ms
\* have elapsed since the first of those admitted calls is admitted.
C1_QuotaThenWindow ==
    (Checked /\ Len(HistoryBefore) >= RATE_LIMIT) =>
        /\ lastCheck.now - FirstOfQuota < RATE_WINDOW =>
              /\ ~lastCheck.result
              /\ \A r \in inflight : r.id # lastCheck.id
              /\ lastResponse.id = lastCheck.id =>
                    /\ lastResponse.status = 429
                    /\ lastResponse.body = [error |-> "Rate limit exceeded"]
        /\ lastCheck.now - FirstOfQuota >= RATE_WINDOW => lastCheck.result

\* A call made exactly RATE_WINDOW ms after the first of RATE_LIMIT admitted
\* calls is admitted, after an earlier call in the window was answered 429.
C1_Witness ==
    /\ Checked /\ Len(HistoryBefore) >= RATE_LIMIT
    /\ lastCheck.now - FirstOfQuota = RATE_WINDOW
    /\ lastCheck.result
    /\ lastResponse.status = 429 /\ Rejection(lastResponse)

\* C2: after an admission decision for a client, at most RATE_LIMIT of the
\* timestamps stored for it lie in the trailing window ending at the decision.
C2_QuotaBound ==
    Checked => CountIn(requestCounts[lastCheck.ip], lastCheck.now) <= RATE_LIMIT

\* A rejection that leaves exactly RATE_LIMIT stored timestamps in the window.
C2_Witness ==
    /\ Checked /\ ~lastCheck.result
    /\ CountIn(requestCounts[lastCheck.ip], lastCheck.now) = RATE_LIMIT

\* C3: the decision equals that of a reference limiter over the client's
\* complete history of admitted calls: admit exactly when fewer than RATE_LIMIT
\* of them lie in the trailing window ending at now.
C3_SlidingExact ==
    Checked => (lastCheck.result <=> CountIn(HistoryBefore, lastCheck.now) < RATE_LIMIT)

\* A call admitted although RATE_LIMIT calls were admitted before it, some of
\* them outside the window and some still inside it.
C3_Witness ==
    /\ Checked /\ lastCheck.result
    /\ Len(HistoryBefore) >= RATE_LIMIT
    /\ CountIn(HistoryBefore, lastCheck.now) > 0
    /\ CountIn(HistoryBefore, lastCheck.now) < Len(HistoryBefore)

\* C4: a rejected request makes no outbound call and is answered at once; an
\* admitted one makes exactly one; none makes two.
C4_OneOutboundCall ==
    /\ \A r \in inflight : Len(r.outbound) = 1
    /\ lastResponse.calls <= 1
    /\ Rejection(lastResponse) =>
          /\ lastResponse.calls = 0
          /\ lastResponse.status = 429
          /\ \A r \in inflight : r.id # lastResponse.id
    /\ (lastResponse.route \in ProxiedRoutes /\ ~Rejection(lastResponse)) =>
          lastResponse.calls = 1
    /\ (Checked /\ ~lastCheck.result) => \A r \in inflight : r.id # lastCheck.id

\* A request was rejected with no outbound call while an admitted one waits
\* for its single call.
C4_Witness ==
    /\ Rejection(lastResponse) /\ lastResponse.calls = 0
    /\ inflight # {}

HealthAnswered ==
    /\ lastResponse'.id = arrived + 1
    /\ arrived' = arrived + 1
    /\ lastResponse'.route = "health"

\* C5: GET / answers 200 with the descriptor in every state, makes no upstream
\* call, runs no admission check and leaves the timestamp Map unchanged.
C5_HealthUnlimited ==
    [][HealthAnswered =>
          /\ lastResponse'.status = 200
          /\ lastResponse'.body = Descriptor
          /\ lastResponse'.calls = 0
          /\ UNCHANGED <<requestCounts, history, lastCheck, inflight>>]_vars

\* A health check answered 200 while every client has exhausted its quota.
C5_Witness ==
    /\ lastResponse.route = "health" /\ lastResponse.status = 200
    /\ \A c \in Clients : CountIn(requestCounts[c], now) >= RATE_LIMIT

\* C6: the answer to an admitted request is fixed by the outcome of its upstream
\* call: 200 and the upstream body on success; on failure the upstream status if
\* there is one, else 500, with the endpoint's category and the failure message;
\* every request received is waiting for its call or has been answered.
C6_UpstreamOutcome ==
    /\ arrived = Cardinality(inflight) + responded
    /\ lastResponse.upstream.kind = "ok" =>
          /\ lastResponse.status = 200
          /\ lastResponse.body = lastResponse.upstream.data
    /\ lastResponse.upstream.kind \in {"http", "net"} =>
          /\ lastResponse.status =
                IF lastResponse.upstream.kind = "http"
                THEN lastResponse.upstream.status ELSE 500
          /\ lastResponse.body =
                [error |-> Category(lastResponse.route),
                 message |-> lastResponse.upstream.message]
    /\ (lastResponse.upstream.kind = "http" /\ lastResponse.route = "details") =>
          /\ lastResponse.status = 404
          /\ lastResponse.body.error = "Failed to fetch gamepass details"

\* An upstream 404 was passed on, and a later request has been received.
C6_Witness ==
    /\ lastResponse.upstream.kind = "http"
    /\ lastResponse.status = 404
    /\ arrived > lastResponse.id

Sent == limitCase.pc = "sent"

\* The text holds no decimal digit.
NonNumeric(q) ==
    q.present /\ \A i \in DOMAIN q.text : ~IsDigit(q.text[i], 10)

C8_PrunedAfterEveryCall ==
    Checked =>
        LET after == requestCounts[lastCheck.ip]
            t == lastCheck.now
        IN  /\ \A i \in DOMAIN after : InTrailingWindow(after[i], t)
            /\ ~lastCheck.result =>
                  after = SelectSeq(lastCheck.before,
                                    LAMBDA ts : InTrailingWindow(ts, t))

\* A call rejected later than the first stored timestamp.
C8_Witness ==
    /\ Checked /\ ~lastCheck.result
    /\ lastCheck.before # <<>>
    /\ lastCheck.now > lastCheck.before[1]

\* What the decision and the stored sequence are if the entries kept are those
\* newer than now - RATE_WINDOW, together with those equal to it if keepEqual.
WindowRule(keepEqual) ==
    LET t == lastCheck.now
        kept == SelectSeq(lastCheck.before,
                          LAMBDA ts : \/ ts > t - RATE_WINDOW
                                      \/ keepEqual /\ ts = t - RATE_WINDOW)
    IN  /\ lastCheck.result <=> Len(kept) < RATE_LIMIT
        /\ requestCounts[lastCheck.ip] =
              IF lastCheck.result THEN Append(kept, t) ELSE kept

\* C9 as stated: the entries discarded are those with timestamp < now - WINDOW;
\* one equal to now - WINDOW is retained and counted.
C9_AsStated == Checked => WindowRule(TRUE)

\* C9 amended: the entries discarded are those with timestamp <= now - WINDOW;
\* one equal to now - WINDOW is discarded and not counted.
C9_WindowBoundary == Checked => WindowRule(FALSE)

\* A check made exactly RATE_WINDOW ms after a stored timestamp.
C9_Witness ==
    /\ Checked
    /\ \E i \in DOMAIN lastCheck.before :
          lastCheck.before[i] = lastCheck.now - RATE_WINDOW

\* C10: the sequence stored for a client changes only in the admission check of
\* a request of that client, which is one step and appends one timestamp when it
\* admits; settling upstream calls, pending calls, health checks and other
\* clients' requests leave it unchanged.
C10_OnlyOwnCheckWrites ==
    [][\A c \in Clients :
          requestCounts'[c] # requestCounts[c] =>
              /\ arrived' = arrived + 1
              /\ lastCheck'.id = arrived'
              /\ lastCheck'.ip = c
              /\ lastCheck'.result
              /\ CountIn(requestCounts'[c], now) = CountIn(requestCounts[c], now) + 1
              /\ UNCHANGED lastResponse]_vars

\* Both clients have spent quota, a request is pending and another's upstream
\* call has failed.
C10_Witness ==
    /\ inflight # {}
    /\ lastResponse.upstream.kind \in {"http", "net"}
    /\ \A c \in Clients : Len(history[c]) > RATE_LIMIT - Headroom

====
